---- MODULE Spec2Model ----
(***************************************************************************)
(* SnowFall.js (src/snowfall.js): the SnowSystem singleton and its         *)
(* Snowflake particles, as a state machine.                                *)
(*                                                                         *)
(* Numbers.  The program computes in IEEE doubles; the model computes in   *)
(* fixed point with U units per 1.0 (one pixel = U units, opacity 1.0 = U, *)
(* z = 0.5 is U \div 2).  Products and quotients round towards minus       *)
(* infinity.  Math.random() is a draw r in 0..U-1 standing for r/U (in    *)
(* 0..ZUnit-1 standing for r/ZUnit at the depth draw), taken from a small  *)
(* set at each call site; Math.sin(..Date.now()..) is a draw in -U..U,     *)
(* because the clock is an unconstrained input.                            *)
(***************************************************************************)
EXTENDS Integers, Sequences, FiniteSets

VARIABLES
    config,      \* this.config
    flakes,      \* this.flakes: sequence of Snowflake records
    obstacles,   \* this.obstacles: sequence of [left, right, top, width]
    width,       \* this.width
    height,      \* this.height
    mouse,       \* this.mouse
    isRunning,   \* this.isRunning
    canvases,    \* number of canvas elements appended to document.body
    listeners,   \* event types that have a listener bound on window
    rafPending,  \* callbacks queued with requestAnimationFrame, not yet run
    win,         \* the browser window: innerWidth, innerHeight, scrollY
    initCalls,   \* history: number of calls of SnowFall.init so far
    directCalls, \* history: number of direct calls of the other methods
    frame        \* history: parity of the frame callbacks counted so far

vars == <<config, flakes, obstacles, width, height, mouse, isRunning,
          canvases, listeners, rafPending, win, initCalls, directCalls,
          frame>>

----------------------------------------------------------------------------
(* Fixed-point arithmetic *)

U == 200

Mul(a, b) == (a * b) \div U

Div(a, b) == (a * U) \div b

Abs(a) == IF a < 0 THEN -a ELSE a

\* The largest r in lo..hi with r * r <= n, by bisection.
SqrtBetween[n \in Nat, lo \in Nat, hi \in Nat] ==
    IF lo >= hi THEN lo
    ELSE LET mid == (lo + hi + 1) \div 2
         IN  IF mid * mid <= n THEN SqrtBetween[n, mid, hi]
             ELSE SqrtBetween[n, lo, mid - 1]

\* Squares beyond 32 bits are kept in two limbs: <<hi, lo>> stands for
\* hi * Limb * Limb + lo, with 0 <= lo < Limb * Limb.
Limb == 1000

\* a * a for 0 <= a < Limb * Limb, in two limbs.
Square2(a) ==
    LET ah  == a \div Limb
        al  == a % Limb
        mid == 2 * Limb * ah * al + al * al
    IN  << ah * ah + mid \div (Limb * Limb), mid % (Limb * Limb) >>

\* p + q in two limbs.
Plus2(p, q) ==
    << p[1] + q[1] + (p[2] + q[2]) \div (Limb * Limb), (p[2] + q[2]) % (Limb * Limb) >>

\* p <= q in two limbs.
Leq2(p, q) == p[1] < q[1] \/ (p[1] = q[1] /\ p[2] <= q[2])

\* The largest r in lo..hi whose square is at most the two-limb number n,
\* by bisection.
SqrtBetween2[n \in Seq(Nat), lo \in Nat, hi \in Nat] ==
    IF lo >= hi THEN lo
    ELSE LET mid == (lo + hi + 1) \div 2
         IN  IF Leq2(Square2(mid), n) THEN SqrtBetween2[n, mid, hi]
             ELSE SqrtBetween2[n, lo, mid - 1]

\* Math.sqrt(a*a + b*b), rounded down to a whole unit.  Operands whose
\* squares fit 32 bits are squared directly; larger ones take a first
\* estimate from the operands divided by 16, which is at most 40 units
\* below the root, and the two-limb bisection from there.
Hypot(a, b) ==
    LET x == Abs(a)
        y == Abs(b)
    IN  IF x < 32000 /\ y < 32000
        THEN SqrtBetween[x * x + y * y, 0, 46340]
        ELSE LET r0 == 16 * SqrtBetween[(x \div 16) * (x \div 16)
                                         + (y \div 16) * (y \div 16), 0, 46340]
             IN  SqrtBetween2[Plus2(Square2(x), Square2(y)), r0, r0 + 40]

\* Cosines, sines and the repulsion's force are computed in Fine parts
\* per 1.0, finer than U, because the program multiplies them by 5.
Fine == 4000

\* The vector (a, b) brought to a length Hypot can square: multiplied up
\* when short (the direction is kept exactly), divided down when long.
Scaled(a, b) ==
    LET m == IF Abs(a) > Abs(b) THEN Abs(a) ELSE Abs(b)
    IN  IF m = 0 THEN << 0, 0 >>
        ELSE IF m <= 16000 THEN << a * (16000 \div m), b * (16000 \div m) >>
        ELSE LET q == m \div 16000 + 1
             IN  << (IF a < 0 THEN -1 ELSE 1) * (Abs(a) \div q),
                    (IF b < 0 THEN -1 ELSE 1) * (Abs(b) \div q) >>

\* Math.cos(Math.atan2(dy, dx)) and Math.sin(Math.atan2(dy, dx)), in Fine
\* parts; atan2(0, 0) is 0.
CosAtan2(dy, dx) ==
    LET v == Scaled(dx, dy)
    IN  IF v = << 0, 0 >> THEN Fine ELSE (v[1] * Fine) \div Hypot(v[1], v[2])

SinAtan2(dy, dx) ==
    LET v == Scaled(dx, dy)
    IN  IF v = << 0, 0 >> THEN 0 ELSE (v[2] * Fine) \div Hypot(v[1], v[2])

----------------------------------------------------------------------------
(* Configuration *)

DEFAULTS ==
    [ flakeCount           |-> 400,
      gravity              |-> (7 * U) \div 10,
      wind                 |-> U \div 2,
      sizeBase             |-> 3 * U,
      stickiness           |-> (9 * U) \div 10,
      meltSpeed            |-> (5 * U) \div 1000,
      collectSelectors     |-> <<>>,
      mouseInteraction     |-> TRUE,
      mouseRepulsionRadius |-> 150 * U,
      zIndex               |-> 99999 ]

\* { ...DEFAULTS, ...options }
MergeOptions(options) ==
    [ k \in DOMAIN DEFAULTS |->
        IF k \in DOMAIN options THEN options[k] ELSE DEFAULTS[k] ]

----------------------------------------------------------------------------
(* The browser: window geometry and the document's elements *)

\* innerWidth x innerHeight the window can take.
WindowSizes == { [w |-> 800 * U, h |-> 32 * U], [w |-> 800 * U, h |-> 16 * U] }

\* window.scrollY positions.
ScrollYs == { 0, 47 * U }

\* The page, in document order and document coordinates; matches are the
\* selectors of Selectors that select the element.
Document ==
    << [ id |-> "nav", matches |-> {".nav", ".box"},
         left |-> 300 * U, right |-> 500 * U, top |-> 25 * U, bottom |-> 30 * U ],
       [ id |-> "card", matches |-> {".card", ".box"},
         left |-> 380 * U, right |-> 900 * U, top |-> 22 * U, bottom |-> 200 * U ] >>

\* Selectors without a match ("#none") and with invalid syntax ("div[") included.
InvalidSelectors == { "div[" }

\* el.getBoundingClientRect(): the element's box relative to the viewport.
BoundingClientRect(el, w) ==
    [ left |-> el.left, right |-> el.right,
      top |-> el.top - w.scrollY, bottom |-> el.bottom - w.scrollY,
      width |-> el.right - el.left ]

\* querySelectorAll taking an invalid selector for one that matches all.
QuerySelectorAllLenient(selector) ==
    IF selector \in InvalidSelectors THEN [i \in 1..Len(Document) |-> i]
    ELSE SelectSeq([i \in 1..Len(Document) |-> i],
                   LAMBDA i : selector \in Document[i].matches)

\* document.querySelectorAll(selector) inside the try block: the indices of
\* the matching elements in document order; an invalid selector throws, the
\* catch logs a warning and nothing is added.
QuerySelectorAll(selector) ==
    IF selector \in InvalidSelectors THEN <<>>
    ELSE SelectSeq([i \in 1..Len(Document) |-> i],
                   LAMBDA i : selector \in Document[i].matches)

\* elements.add(el) for every element of found: a Set keeps insertion order
\* and drops duplicates.
RECURSIVE AddAll(_, _)
AddAll(elements, found) ==
    IF found = <<>> THEN elements
    ELSE AddAll(IF \E j \in 1..Len(elements) : elements[j] = Head(found)
                THEN elements ELSE Append(elements, Head(found)),
                Tail(found))

RECURSIVE CollectElements(_, _)
CollectElements(selectors, elements) ==
    IF selectors = <<>> THEN elements
    ELSE CollectElements(Tail(selectors),
                         AddAll(elements, QuerySelectorAll(Head(selectors))))

\* The map callback of updateObstacles: null for an off-screen element.
OnScreen(rect, h) == ~(rect.bottom < 0 \/ rect.top > h)

ObstacleOf(rect) ==
    [ left |-> rect.left, right |-> rect.right, top |-> rect.top, width |-> rect.width ]

\* SnowSystem.updateObstacles(): the new value of this.obstacles.
UpdateObstacles(conf, h, w) ==
    IF conf.collectSelectors = <<>> THEN <<>>
    ELSE LET elements == CollectElements(conf.collectSelectors, <<>>)
             rects    == [ j \in 1..Len(elements) |->
                             BoundingClientRect(Document[elements[j]], w) ]
             kept     == SelectSeq(rects, LAMBDA r : OnScreen(r, h))
         IN  [ j \in 1..Len(kept) |-> ObstacleOf(kept[j]) ]

----------------------------------------------------------------------------
(* Snowflake *)

\* The depth draw is counted in parts of ZUnit, so that the draws whose
\* depth is a whole number of units are representable: Math.random() = 1/3
\* gives z = 0.4, the bound of the collision gate.
ZUnit == 9 * U

\* Values of Math.random() at each call site of Snowflake.init and
\* Snowflake.update (r stands for r/ZUnit in ZDraws: 0, 1/3, 4/9 and
\* 179/180, giving z = 0.1, 0.4, 0.5 and 0.995; for r/U in the others),
\* and of the Math.sin drift term.
ZDraws     == { 0, 600, 800, 1790 }
XDraws     == { 0, 100, 199 }
YDraws     == { 0, 100 }
VyDraws    == { 100 }
VxDraws    == { 0 }
StackDraws == { 0, 199 }
StickDraws == { 0, 199 }
SinDraws   == { -U, U }

\* The draws one call of init(isNew) consumes, in call order; the y draw
\* is taken only when isNew is false.
SpawnDraws(isNew) ==
    [ z : ZDraws, x : XDraws, y : IF isNew THEN {0} ELSE YDraws,
      vy : VyDraws, vx : VxDraws, so : StackDraws ]

\* History of a flake's latest init or update, kept beside its fields:
\* the branches taken, the position right after x += dx; y += dy (the
\* spawn position when the call ended in init), and the obstacles (indices)
\* it stuck to, in order.  Not read by the program.
History(took, x, y, hits) == [ took |-> took, x |-> x, y |-> y, hits |-> hits ]

\* Math.random() * 0.9 + 0.1: a mistaken scale of 1.0.
DepthUnscaled(r) == (r * U) \div ZUnit + U \div 10

\* this.z = Math.random() * 0.9 + 0.1, Math.random() being r / ZUnit
Depth(r) == (r * 9 * U) \div (10 * ZUnit) + U \div 10

\* Snowflake.init(isNew)
FlakeInit(conf, w, h, isNew, d) ==
    LET z == Depth(d.z)
        x == Mul(d.x, w)
        y == IF isNew THEN -20 * U ELSE Mul(d.y, h)
    IN  [ z           |-> z,
          size        |-> Mul(conf.sizeBase, z),
          x           |-> x,
          y           |-> y,
          vy          |-> Mul(conf.gravity, z) + Mul(d.vy, U \div 2),
          vx          |-> Mul(d.vx - U \div 2, U \div 2),
          alpha       |-> U,
          meltAlpha   |-> U,
          landed      |-> FALSE,
          stackOffset |-> Mul(d.so, 4 * U),
          last        |-> History({"init"}, x, y, <<>>) ]

\* The landed branch leaving meltAlpha alone.
MeltNever(f, conf) ==
    [ f EXCEPT !.last = History({"melt"}, f.x, f.y, <<>>) ]

\* The landed branch with the flake still carried by its fall speed.
MeltSliding(f, conf) ==
    [ f EXCEPT !.meltAlpha = f.meltAlpha - conf.meltSpeed, !.y = f.y + f.vy,
               !.last = History({"melt"}, f.x, f.y + f.vy, <<>>) ]

\* The landed branch melting at twice the configured speed.
MeltTwice(f, conf) ==
    [ f EXCEPT !.meltAlpha = f.meltAlpha - 2 * conf.meltSpeed,
               !.last = History({"melt"}, f.x, f.y, <<>>) ]

\* update(), landed branch: this.meltAlpha -= meltSpeed
Melt(f, conf) ==
    [ f EXCEPT !.meltAlpha = f.meltAlpha - conf.meltSpeed,
               !.last = History({"melt"}, f.x, f.y, <<>>) ]

\* init(true) leaving meltAlpha as the melting left it.
RespawnStillMelted(f, conf, w, h, d, why) ==
    [ FlakeInit(conf, w, h, TRUE, d) EXCEPT !.last.took = f.last.took \cup {why},
                                            !.meltAlpha = f.meltAlpha ]

\* this.init(true) from update(): every field is reassigned; the history
\* keeps the branches the update took before.
Respawn(f, conf, w, h, d, why) ==
    [ FlakeInit(conf, w, h, TRUE, d) EXCEPT !.last.took = f.last.took \cup {why} ]

\* The landed branch's test with < for <=.
MeltedStrict(f) == f.meltAlpha < 0

\* update(), landed branch: if (this.meltAlpha <= 0)
Melted(f) == f.meltAlpha <= 0

\* Step 3 entered whatever the configuration says.
RepulsionAlways(conf) == TRUE

\* update(), step 3: if (conf.mouseInteraction)
RepulsionOn(conf) == conf.mouseInteraction

\* update(), steps 2 and 3 and the integration: dx, dy from wind, drift and
\* mouse repulsion, then x += dx; y += dy.  s is the value of the Math.sin.
Move(f, conf, m, s) ==
    LET dx0   == f.vx + Mul(conf.wind, f.z) + Mul(Mul(s, U \div 2), f.z)
        dy0   == f.vy
        distX == f.x - m.x
        distY == f.y - m.y
        dist  == Hypot(distX, distY)
        near  == RepulsionOn(conf) /\ dist < conf.mouseRepulsionRadius
        force == ((conf.mouseRepulsionRadius - dist) * Fine)
                     \div conf.mouseRepulsionRadius
        dx    == IF near
                 THEN dx0 + (((CosAtan2(distY, distX) * force) \div Fine) * 5 * f.z)
                            \div Fine
                 ELSE dx0
        dy    == IF near
                 THEN dy0 + (((SinAtan2(distY, distX) * force) \div Fine) * 5 * f.z)
                            \div Fine
                 ELSE dy0
    IN  [ f EXCEPT !.x = f.x + dx, !.y = f.y + dy,
                   !.last = History(IF near THEN {"move", "repel"} ELSE {"move"},
                                    f.x + dx, f.y + dy, <<>>) ]

Took(f, what) == [ f EXCEPT !.last.took = f.last.took \cup {what} ]

\* Step 4 wrapping a flake that leaves on the right to the left edge itself.
WrapXToZero(f, w) ==
    LET g == IF f.x > w + 5 * U THEN Took([ f EXCEPT !.x = 0 ], "wrapRight") ELSE f
    IN  IF g.x < -5 * U THEN Took([ g EXCEPT !.x = w + 5 * U ], "wrapLeft") ELSE g

\* update(), step 4, the two horizontal tests, in order.
WrapX(f, w) ==
    LET g == IF f.x > w + 5 * U THEN Took([ f EXCEPT !.x = -5 * U ], "wrapRight") ELSE f
    IN  IF g.x < -5 * U THEN Took([ g EXCEPT !.x = w + 5 * U ], "wrapLeft") ELSE g

\* Step 4 respawning with init(false), anywhere in the viewport's height.
WrapYMidField(f, conf, w, h) ==
    IF f.y > h
    THEN { [ FlakeInit(conf, w, h, FALSE, d) EXCEPT
               !.last.took = f.last.took \cup {"respawnBottom"} ] :
           d \in SpawnDraws(FALSE) }
    ELSE { f }

\* update(), step 4, the vertical test: the flakes init(true) can produce.
WrapY(f, conf, w, h) ==
    IF f.y > h
    THEN { Respawn(f, conf, w, h, d, "respawnBottom") : d \in SpawnDraws(TRUE) }
    ELSE { f }

\* The obstacle's landing line for this flake.
LandY(f, obs) == obs.top - Mul(f.size, U \div 2) + f.stackOffset

\* The two tests of the collision loop's body.
Hits(f, obs) ==
    /\ f.x > obs.left /\ f.x < obs.right
    /\ f.y >= LandY(f, obs) /\ f.y <= LandY(f, obs) + 10 * U

\* The body's effect when Math.random() < stickiness.
Land(f, obs, k) ==
    [ f EXCEPT !.landed = TRUE, !.y = LandY(f, obs),
               !.last.took = f.last.took \cup {"stick"},
               !.last.hits = Append(f.last.hits, k) ]

\* The stickiness test with <= for <.
SticksInclusive(r, conf) == r <= conf.stickiness

\* update(), step 5: if (Math.random() < conf.stickiness)
Sticks(r, conf) == r < conf.stickiness

\* update(), step 5, from obstacle k on: the flakes the loop can end with,
\* one Math.random() draw for every obstacle that is hit.
RECURSIVE CollideFrom(_, _, _, _)
CollideFrom(f, conf, obss, k) ==
    IF k > Len(obss) THEN { f }
    ELSE IF Hits(f, obss[k])
         THEN UNION { CollideFrom(IF Sticks(r, conf) THEN Land(f, obss[k], k) ELSE f,
                                  conf, obss, k + 1) : r \in StickDraws }
         ELSE CollideFrom(f, conf, obss, k + 1)

\* Step 5 with the depth gate admitting z = 0.4.
CollideInclusive(f, conf, obss) ==
    IF f.z >= (4 * U) \div 10 THEN CollideFrom(f, conf, obss, 1) ELSE { f }

\* Step 5 with the depth gate at 0.5.
CollideNearOnly(f, conf, obss) ==
    IF f.z > U \div 2 THEN CollideFrom(f, conf, obss, 1) ELSE { f }

\* update(), step 5: the depth gate and the loop over this.sys.obstacles.
Collide(f, conf, obss) ==
    IF f.z > (4 * U) \div 10 THEN CollideFrom(f, conf, obss, 1) ELSE { f }

\* Snowflake.update(): every flake one call can leave behind.
Update(f, conf, w, h, m, obss) ==
    IF f.landed
    THEN LET g == Melt(f, conf)
         IN  IF Melted(g)
             THEN { Respawn(g, conf, w, h, d, "respawnMelt") : d \in SpawnDraws(TRUE) }
             ELSE { g }
    ELSE UNION { UNION { Collide(r, conf, obss) :
                         r \in WrapY(WrapX(Move(f, conf, m, s), w), conf, w, h) } :
                 s \in SinDraws }

\* draw() taking the depth itself for a falling flake's opacity.
DrawOpacityUnscaled(f) == IF f.landed THEN f.meltAlpha ELSE f.z

\* Snowflake.draw(): the opacity handed to the canvas.
DrawOpacity(f) == IF f.landed THEN f.meltAlpha ELSE Mul(f.z, (8 * U) \div 10)

----------------------------------------------------------------------------
(* SnowSystem *)

\* The option objects SnowFall.init is called with.
OptionSets ==
    { [ flakeCount |-> 1, gravity |-> 100 * U, meltSpeed |-> U \div 2,
        collectSelectors |-> <<".nav", ".box">> ],
      [ flakeCount |-> 1, gravity |-> 100 * U, meltSpeed |-> (3 * U) \div 10,
        stickiness |-> U, wind |-> 20 * U, mouseInteraction |-> FALSE,
        collectSelectors |-> <<".nav">> ],
      [ flakeCount |-> 1, gravity |-> 100 * U, meltSpeed |-> U \div 2,
        stickiness |-> 0, wind |-> -12 * U, mouseInteraction |-> FALSE,
        collectSelectors |-> <<"div[", ".box">> ],
      [ flakeCount |-> 1, gravity |-> 100 * U, meltSpeed |-> U \div 2,
        stickiness |-> -(U \div 2), mouseInteraction |-> FALSE,
        collectSelectors |-> <<".card", "#none">> ],
      [ flakeCount |-> 1, gravity |-> 100 * U, meltSpeed |-> U \div 2,
        mouseInteraction |-> FALSE ],
      [ flakeCount |-> 1, gravity |-> 100 * U, meltSpeed |-> U \div 2,
        mouseInteraction |-> FALSE, collectSelectors |-> <<"#none", "div[">> ],
      [ flakeCount |-> 1, gravity |-> 100 * U, meltSpeed |-> U \div 2,
        mouseRepulsionRadius |-> 1500 * U ] }

\* e.clientX, e.clientY of the mousemove events.
ClientPoints == { [x |-> 400 * U, y |-> 10 * U] }

\* Calls of SnowFall.init the model follows.
MaxInitCalls == 2

\* spawnFlakes() constructing its flakes with the constructor's default,
\* new Snowflake(this).
RECURSIVE SpawnFlakesAbove(_, _, _, _)
SpawnFlakesAbove(n, conf, w, h) ==
    IF n = 0 THEN { <<>> }
    ELSE { Append(fs, FlakeInit(conf, w, h, TRUE, d)) :
           fs \in SpawnFlakesAbove(n - 1, conf, w, h), d \in SpawnDraws(TRUE) }

\* spawnFlakes(): every array flakeCount constructor calls can build,
\* new Snowflake(this, false) each.
RECURSIVE SpawnFlakes(_, _, _, _)
SpawnFlakes(n, conf, w, h) ==
    IF n = 0 THEN { <<>> }
    ELSE { Append(fs, FlakeInit(conf, w, h, FALSE, d)) :
           fs \in SpawnFlakes(n - 1, conf, w, h), d \in SpawnDraws(FALSE) }

\* The forEach of loop(): flake.update() on the first n flakes, in order
\* (flake.draw() changes no state).
RECURSIVE UpdateAll(_, _, _, _, _, _, _)
UpdateAll(fs, n, conf, w, h, m, obss) ==
    IF n = 0 THEN { <<>> }
    ELSE { Append(done, g) :
           done \in UpdateAll(fs, n - 1, conf, w, h, m, obss),
           g \in Update(fs[n], conf, w, h, m, obss) }

\* init() without its test of isRunning.
NeverReturnsEarly == FALSE

\* init(): if (this.isRunning) return;
ReturnsEarly == isRunning

Init ==
    /\ config = << >>
    /\ flakes = << >>
    /\ obstacles = << >>
    /\ width = 0
    /\ height = 0
    /\ mouse = [x |-> -999 * U, y |-> -999 * U]
    /\ isRunning = FALSE
    /\ canvases = 0
    /\ listeners = [resize |-> 0, scroll |-> 0, mousemove |-> 0]
    /\ rafPending = 0
    /\ win \in { [innerWidth |-> sz.w, innerHeight |-> sz.h, scrollY |-> sy] :
                 sz \in WindowSizes, sy \in ScrollYs }
    /\ initCalls = 0
    /\ directCalls = 0
    /\ frame = 0

\* SnowFall.init(options), options being one of optionSets: createCanvas,
\* bindEvents, resize, spawnFlakes and the first loop() pass, unless the
\* system is running.
SystemInitWith(optionSets) ==
    /\ initCalls < MaxInitCalls
    /\ initCalls' = initCalls + 1
    /\ \E options \in optionSets :
        IF ReturnsEarly
        THEN UNCHANGED <<config, flakes, obstacles, width, height, mouse,
                         isRunning, canvases, listeners, rafPending, win,
                         directCalls, frame>>
        ELSE LET conf == MergeOptions(options)
                 w    == win.innerWidth
                 h    == win.innerHeight
                 obss == UpdateObstacles(conf, h, win)
             IN  /\ config' = conf
                 /\ canvases' = canvases + 1
                 /\ listeners' =
                      [ listeners EXCEPT
                          !.resize = @ + 1, !.scroll = @ + 1,
                          !.mousemove = IF conf.mouseInteraction THEN @ + 1 ELSE @ ]
                 /\ width' = w
                 /\ height' = h
                 /\ obstacles' = obss
                 /\ \E fs \in SpawnFlakes(conf.flakeCount, conf, w, h) :
                       flakes' \in UpdateAll(fs, Len(fs), conf, w, h, mouse, obss)
                 /\ rafPending' = rafPending + 1
                 /\ isRunning' = TRUE
                 /\ UNCHANGED <<mouse, win, directCalls, frame>>

SystemInit == SystemInitWith(OptionSets)

\* loop() queuing two callbacks at its end.
LoopPassQueuingTwo ==
    /\ rafPending > 0
    /\ flakes' \in UpdateAll(flakes, Len(flakes), config, width, height, mouse, obstacles)
    /\ rafPending' = (rafPending - 1) + 2
    /\ UNCHANGED <<config, obstacles, width, height, mouse, isRunning,
                   canvases, listeners, win, initCalls, directCalls>>

\* The requestAnimationFrame callback: one loop() pass, which queues the next.
LoopPass ==
    /\ rafPending > 0
    /\ flakes' \in UpdateAll(flakes, Len(flakes), config, width, height, mouse, obstacles)
    /\ rafPending' = (rafPending - 1) + 1
    /\ UNCHANGED <<config, obstacles, width, height, mouse, isRunning,
                   canvases, listeners, win, initCalls, directCalls>>

Loop == LoopPass /\ UNCHANGED frame

\* this.updateObstacles() on the system as it is: this.config is {} until
\* init has merged the options (which it does exactly when it sets
\* isRunning), and then collectSelectors is undefined.
ObstaclesNow(h, w) == IF isRunning THEN UpdateObstacles(config, h, w) ELSE << >>

\* The window is resized and the resize listener runs resize(); while
\* this.canvas is null, resize() throws before its first assignment.
Resize ==
    /\ listeners.resize > 0
    /\ \E sz \in WindowSizes :
        /\ <<sz.w, sz.h>> # <<win.innerWidth, win.innerHeight>>
        /\ win' = [win EXCEPT !.innerWidth = sz.w, !.innerHeight = sz.h]
    /\ IF canvases = 0
       THEN UNCHANGED <<width, height, obstacles>>
       ELSE /\ width' = win'.innerWidth
            /\ height' = win'.innerHeight
            /\ obstacles' = ObstaclesNow(height', win')
    /\ UNCHANGED <<config, flakes, mouse, isRunning, canvases, listeners,
                   rafPending, initCalls, directCalls, frame>>

\* The page is scrolled and the scroll listener runs updateObstacles().
Scroll ==
    /\ listeners.scroll > 0
    /\ \E sy \in ScrollYs :
        /\ sy # win.scrollY
        /\ win' = [win EXCEPT !.scrollY = sy]
    /\ obstacles' = ObstaclesNow(height, win')
    /\ UNCHANGED <<config, flakes, width, height, mouse, isRunning, canvases,
                   listeners, rafPending, initCalls, directCalls, frame>>

\* The pointer moves and the mousemove listener stores its position.
MouseMoveTo(points) ==
    /\ listeners.mousemove > 0
    /\ \E p \in points :
        /\ p # mouse
        /\ mouse' = [x |-> p.x, y |-> p.y]
    /\ UNCHANGED <<config, flakes, obstacles, width, height, isRunning,
                   canvases, listeners, rafPending, win, initCalls,
                   directCalls, frame>>

MouseMove == MouseMoveTo(ClientPoints)

\* Direct calls of the other methods of window.SnowFall the model follows.
MaxDirectCalls == 1

\* A direct call of a method of window.SnowFall other than init.
DirectCall ==
    /\ directCalls < MaxDirectCalls
    /\ directCalls' = directCalls + 1

\* SnowFall.createCanvas()
CallCreateCanvas ==
    /\ DirectCall
    /\ canvases' = canvases + 1
    /\ UNCHANGED <<config, flakes, obstacles, width, height, mouse, isRunning,
                   listeners, rafPending, win, initCalls, frame>>

\* SnowFall.bindEvents(): mouseInteraction is undefined in the {} that
\* this.config is before init.
CallBindEvents ==
    /\ DirectCall
    /\ listeners' =
         [ listeners EXCEPT
             !.resize = @ + 1, !.scroll = @ + 1,
             !.mousemove = IF isRunning /\ config.mouseInteraction THEN @ + 1 ELSE @ ]
    /\ UNCHANGED <<config, flakes, obstacles, width, height, mouse, isRunning,
                   canvases, rafPending, win, initCalls, frame>>

\* SnowFall.resize(); while this.canvas is null the call throws before its
\* first assignment and changes nothing.
CallResize ==
    /\ DirectCall
    /\ canvases > 0
    /\ width' = win.innerWidth
    /\ height' = win.innerHeight
    /\ obstacles' = ObstaclesNow(height', win)
    /\ UNCHANGED <<config, flakes, mouse, isRunning, canvases, listeners,
                   rafPending, win, initCalls, frame>>

\* SnowFall.updateObstacles()
CallUpdateObstacles ==
    /\ DirectCall
    /\ obstacles' = ObstaclesNow(height, win)
    /\ UNCHANGED <<config, flakes, width, height, mouse, isRunning, canvases,
                   listeners, rafPending, win, initCalls, frame>>

\* SnowFall.spawnFlakes(): a fresh population, no loop pass; flakeCount is
\* undefined in the {} that this.config is before init, and the for loop
\* does not run.
CallSpawnFlakes ==
    /\ DirectCall
    /\ flakes' \in (IF isRunning
                    THEN SpawnFlakes(config.flakeCount, config, width, height)
                    ELSE { << >> })
    /\ UNCHANGED <<config, obstacles, width, height, mouse, isRunning,
                   canvases, listeners, rafPending, win, initCalls, frame>>

\* SnowFall.loop(): one pass, which queues one more callback beside those
\* already queued; while this.ctx is null the call throws at clearRect and
\* changes nothing.
CallLoop ==
    /\ DirectCall
    /\ canvases > 0
    /\ flakes' \in UpdateAll(flakes, Len(flakes), config, width, height, mouse, obstacles)
    /\ rafPending' = rafPending + 1
    /\ UNCHANGED <<config, obstacles, width, height, mouse, isRunning,
                   canvases, listeners, win, initCalls, frame>>

Next ==
    \/ SystemInit \/ Loop \/ Resize \/ Scroll \/ MouseMove
    \/ CallCreateCanvas \/ CallBindEvents \/ CallResize
    \/ CallUpdateObstacles \/ CallSpawnFlakes \/ CallLoop

Spec == Init /\ [][Next]_vars

\* Option sets for a fall slow enough for the pointer's repulsion to
\* weigh against it (with a wind that wraps every flake in every update,
\* so that x is -5 after each), and for a fast fall onto an obstacle.
SlowOptionSets ==
    { [ flakeCount |-> 1, gravity |-> (9 * U) \div 10, wind |-> 10000 * U,
        meltSpeed |-> U \div 2, mouseRepulsionRadius |-> 12 * U ],
      [ flakeCount |-> 1, gravity |-> 100 * U, meltSpeed |-> (3 * U) \div 10,
        stickiness |-> U, wind |-> 20 * U, mouseInteraction |-> FALSE,
        collectSelectors |-> <<".nav">> ] }

\* e.clientX, e.clientY of the mousemove events near the left edge.
SlowClientPoints == { [x |-> 0, y |-> 10 * U] }

\* SnowFall.init called once, with one of SlowOptionSets.
SlowInit == initCalls = 0 /\ SystemInitWith(SlowOptionSets)

\* The frame callback, counted.
CountedLoop == LoopPass /\ frame' = 1 - frame

SlowMouseMove == MouseMoveTo(SlowClientPoints)

SlowNext == SlowInit \/ CountedLoop \/ Resize \/ Scroll \/ SlowMouseMove

\* A counted frame callback runs: CountedLoop seen through rafPending and
\* frame alone.  UpdateAll is never empty, so this is enabled exactly when
\* CountedLoop is, and a step of SlowNext that flips frame is a CountedLoop
\* step.
FrameRuns == rafPending > 0 /\ frame' = 1 - frame

\* The program started once with one of SlowOptionSets and driven by frames
\* and events only (no direct call of another method), the browser running
\* every queued frame callback: requestAnimationFrame never drops one.
FairSlowSpec == Init /\ [][SlowNext]_vars /\ WF_frame(FrameRuns)

----------------------------------------------------------------------------
(* Properties *)

Flakes == DOMAIN flakes

\* A flake as init(true) leaves it, whatever was drawn.
NewSpawn(f) ==
    /\ f.landed = FALSE
    /\ f.y = -20 * U
    /\ f.meltAlpha = U
    /\ f.z >= U \div 10 /\ f.z < U
    /\ f.size = Mul(config.sizeBase, f.z)
    /\ f.stackOffset >= 0 /\ f.stackOffset < 4 * U

\* C1: a call of init while the system is running changes nothing: the
\* flakes (their number and every field), the configuration, the obstacle
\* list and the pointer point are what they were before the call, whatever
\* options were passed.
C1_StartWhileRunningIsNoOp ==
    [][ (isRunning /\ initCalls' = initCalls + 1) =>
          UNCHANGED <<flakes, config, obstacles, mouse>> ]_vars

\* C1 happens: init was called again on a running system that holds a
\* landed, partly melted flake.
C1_Witness ==
    /\ isRunning /\ initCalls >= 2
    /\ \E i \in Flakes : flakes[i].landed /\ flakes[i].meltAlpha < U

\* C2: in every state after start every flake has 0.1 <= z < 1.0 and
\* size = sizeBase * z.
C2_DepthAndSize ==
    isRunning =>
        \A i \in Flakes :
            /\ flakes[i].z >= U \div 10 /\ flakes[i].z < U
            /\ flakes[i].size = Mul(config.sizeBase, flakes[i].z)

\* C2 happens: a flake respawned after melting drew the largest depth, and
\* the page has been scrolled since the start.
C2_Witness ==
    /\ isRunning /\ win.scrollY # 0
    /\ \E i \in Flakes :
        /\ "respawnMelt" \in flakes[i].last.took
        /\ flakes[i].z = Depth(ZUnit - 10)

\* C3: a landed flake with meltAlpha > 0 keeps its x and y in every step
\* (frame, resize, scroll, pointer move, init, direct call of loop, resize,
\* updateObstacles, createCanvas or bindEvents), except the update in which
\* its melting ends and it respawns; a direct call of spawnFlakes puts new
\* flakes in the place of all, landed or not.
C3_LandedPositionFrozen ==
    [][ \A i \in Flakes :
          (flakes[i].landed /\ flakes[i].meltAlpha > 0) =>
              \/ flakes'[i].x = flakes[i].x /\ flakes'[i].y = flakes[i].y
              \/ /\ flakes[i].meltAlpha - config.meltSpeed <= 0
                 /\ NewSpawn(flakes'[i])
              \/ CallSpawnFlakes ]_vars

\* C3 happens: a landed flake has been through a frame and the obstacle it
\* landed on has left the obstacle list.
C3_Witness ==
    /\ obstacles = << >>
    /\ \E i \in Flakes :
        /\ flakes[i].landed
        /\ flakes[i].meltAlpha > 0 /\ flakes[i].meltAlpha < U
        /\ flakes[i].last.took = {"melt"}

\* C4: a frame (or a direct call of loop) lowers the meltAlpha of a flake
\* that is and stays landed by exactly meltSpeed, so it strictly decreases;
\* and a landed flake's meltAlpha returns to 1.0 only by the respawn (a
\* direct call of spawnFlakes puts new flakes in the place of all).
C4_MeltByMeltSpeed ==
    [][ \A i \in Flakes :
          flakes[i].landed =>
              /\ (flakes'[i].landed /\ (Loop \/ CallLoop)) =>
                    /\ flakes'[i].meltAlpha = flakes[i].meltAlpha - config.meltSpeed
                    /\ flakes'[i].meltAlpha < flakes[i].meltAlpha
              /\ (flakes[i].meltAlpha < U /\ flakes'[i].meltAlpha = U) =>
                    \/ /\ "respawnMelt" \in flakes'[i].last.took
                       /\ NewSpawn(flakes'[i])
                    \/ CallSpawnFlakes ]_vars

\* C4 happens: a landed flake has melted for at least two frames.
C4_Witness ==
    \E i \in Flakes :
        /\ flakes[i].landed
        /\ flakes[i].meltAlpha = U - 2 * config.meltSpeed
        /\ flakes[i].meltAlpha > 0

\* C5: the frame in which a landed flake's meltAlpha reaches <= 0 ends with
\* the flake a new spawn (landed false, y = -20, meltAlpha 1.0, z in
\* [0.1, 1.0), size = sizeBase * z, stackOffset in [0, 4)); no state that is
\* drawn holds a landed flake with meltAlpha <= 0.
C5_MeltedRespawnsAtOnce ==
    [][ /\ \A i \in Flakes :
             (flakes[i].landed /\ flakes[i].meltAlpha - config.meltSpeed <= 0 /\ Loop)
                 => NewSpawn(flakes'[i])
        /\ \A i \in DOMAIN flakes' :
             flakes'[i].landed => flakes'[i].meltAlpha > 0 ]_vars

\* C5 happens: a flake's latest update ended its melting below zero and
\* respawned it.
C5_Witness ==
    \E i \in Flakes :
        /\ flakes[i].last.took = {"melt", "respawnMelt"}
        /\ NewSpawn(flakes[i])
        /\ config.meltSpeed = (3 * U) \div 10

\* The flakes one update() of a falling flake can end with once it has
\* been moved to m: steps 4 and 5.
AfterMove(m) ==
    UNION { Collide(r, config, obstacles) :
            r \in WrapY(WrapX(m, width), config, width, height) }

\* C6 (as stated): with width = 800, a falling flake that the integration
\* puts at x = 806 ends its update at x = -5, and one put at x = -6 ends it
\* at x = 805.
C6_WrapAsStated ==
    (isRunning /\ width = 800 * U) =>
        \A i \in Flakes : \A s \in SinDraws :
            ~flakes[i].landed =>
                LET m == Move(flakes[i], config, mouse, s)
                IN  \A g \in AfterMove(m) :
                        /\ m.x = 806 * U => g.x = -5 * U
                        /\ m.x = -6 * U => g.x = 805 * U

\* C6 (amended): a falling flake that the integration puts right of
\* width + 5 (806 for width 800) ends its update at x = -5, and one put left
\* of -5 (-6) ends it at x = width + 5 (805), unless the same update puts
\* it below the bottom edge, where it respawns with a new x.
C6_WrapUnlessRespawned ==
    isRunning =>
        \A i \in Flakes : \A s \in SinDraws :
            ~flakes[i].landed =>
                LET m == Move(flakes[i], config, mouse, s)
                IN  m.y <= height =>
                        \A g \in AfterMove(m) :
                            /\ m.x > width + 5 * U => g.x = -5 * U
                            /\ m.x < -5 * U => g.x = width + 5 * U

\* C6 happens: with width 800 a flake was moved to x = 806 and wrapped.
C6_Witness ==
    /\ width = 800 * U
    /\ \E i \in Flakes :
        /\ flakes[i].last.x = 806 * U
        /\ "wrapRight" \in flakes[i].last.took
        /\ "respawnBottom" \notin flakes[i].last.took
        /\ flakes[i].x = -5 * U

\* The flake is inside some obstacle's span and landing window.
InWindow(f) == \E k \in 1..Len(obstacles) : Hits(f, obstacles[k])

\* C7 (as stated): with stickiness 1.0 a falling flake with z = 0.5 that
\* is inside an obstacle's span and landing window is landed after one
\* frame.
C7_LandsAsStated ==
    [][ \A i \in Flakes :
          ( /\ config.stickiness = U
            /\ ~flakes[i].landed
            /\ flakes[i].z = U \div 2
            /\ InWindow(flakes[i])
            /\ Loop ) => flakes'[i].landed ]_vars

\* C7 (amended): with stickiness 1.0 a falling flake with z = 0.5 that is
\* inside an obstacle's span and landing window when the collision check
\* runs (after the frame's movement, horizontal wrap and bottom respawn) is
\* landed at the end of that update, whatever Math.random() returns.
C7_LandsWhenChecked ==
    (isRunning /\ config.stickiness = U) =>
        \A i \in Flakes : \A s \in SinDraws :
            ~flakes[i].landed =>
                \A r \in WrapY(WrapX(Move(flakes[i], config, mouse, s), width),
                               config, width, height) :
                    (r.z = U \div 2 /\ InWindow(r)) =>
                        \A g \in Collide(r, config, obstacles) : g.landed

\* C7 happens: with stickiness 1.0 a flake with z = 0.5 has just stuck.
C7_Witness ==
    /\ isRunning /\ config.stickiness = U
    /\ \E i \in Flakes :
        /\ flakes[i].z = U \div 2
        /\ "stick" \in flakes[i].last.took
        /\ flakes[i].landed /\ flakes[i].meltAlpha = U

\* C8: with stickiness <= 0 no flake is ever landed.
C8_NeverLandsUnsticky ==
    (isRunning /\ config.stickiness <= 0) =>
        \A i \in Flakes : ~flakes[i].landed

\* C8 happens: with stickiness 0 an update has left a near flake inside an
\* obstacle's landing window, falling.
C8_Witness ==
    /\ isRunning /\ config.stickiness = 0
    /\ \E i \in Flakes :
        /\ "move" \in flakes[i].last.took
        /\ flakes[i].x = flakes[i].last.x /\ flakes[i].y = flakes[i].last.y
        /\ flakes[i].z > (4 * U) \div 10
        /\ InWindow(flakes[i])
        /\ ~flakes[i].landed

\* Pointer points to compare: the default, the mousemove positions and
\* points next to the flake.
PointsNear(f) ==
    { [x |-> -999 * U, y |-> -999 * U] } \cup ClientPoints
    \cup { [x |-> f.x - 10 * U, y |-> f.y], [x |-> f.x, y |-> f.y + 30 * U] }

\* C9: with mouseInteraction false an update does not depend on the pointer
\* point: for the same flake, sine value and random draws, any two pointer
\* points give the same flakes, so the same x and y.
C9_PointerIgnoredWhenDisabled ==
    (isRunning /\ ~config.mouseInteraction) =>
        \A i \in Flakes :
            /\ \A p \in PointsNear(flakes[i]) : \A s \in SinDraws :
                   ~flakes[i].landed =>
                       Move(flakes[i], config, p, s) = Move(flakes[i], config, mouse, s)
            /\ \A p \in ClientPoints :
                   Update(flakes[i], config, width, height, p, obstacles)
                     = Update(flakes[i], config, width, height, mouse, obstacles)

\* C9 happens: with mouseInteraction false a flake has moved, unrepelled,
\* while within the repulsion radius of a mousemove position.
C9_Witness ==
    /\ isRunning /\ ~config.mouseInteraction
    /\ \E i \in Flakes : \E p \in ClientPoints :
        /\ flakes[i].last.took = {"move"}
        /\ Hypot(flakes[i].x - p.x, flakes[i].y - p.y) < config.mouseRepulsionRadius
        /\ Hypot(flakes[i].x - flakes[i].vx - p.x, flakes[i].y - flakes[i].vy - p.y)
             < config.mouseRepulsionRadius

\* No configured selector selects an element of the page.
NothingSelected(conf) ==
    \A k \in 1..Len(conf.collectSelectors) : \A e \in 1..Len(Document) :
        conf.collectSelectors[k] \notin Document[e].matches

\* C10: when the selector list is empty or selects no element, the
\* obstacle list is empty after every refresh (start, resize, scroll); and
\* with an empty obstacle list no flake becomes landed.
C10_NoObstaclesNoLanding ==
    [][ /\ (isRunning' /\ NothingSelected(config')) => obstacles' = << >>
        /\ \A i \in Flakes :
             (obstacles = << >> /\ ~flakes[i].landed) => ~flakes'[i].landed ]_vars

\* C10 happens: selectors that select nothing, a scrolled page, and a near
\* flake that an update moved with no obstacle to land on.
C10_Witness ==
    /\ isRunning /\ config.collectSelectors # << >> /\ NothingSelected(config)
    /\ win.scrollY # 0
    /\ obstacles = << >>
    /\ \E i \in Flakes :
        /\ "move" \in flakes[i].last.took
        /\ flakes[i].z > (4 * U) \div 10
        /\ ~flakes[i].landed

\* C11: the system has a stop operation: in every state after start a step
\* of the system is possible that leaves no frame callback queued, and from
\* a state with none queued no frame pass runs.
C11_StopCeasesScheduling ==
    /\ isRunning => ENABLED (Next /\ rafPending' = 0)
    /\ rafPending = 0 => ~ENABLED Loop

\* Values of flakeCount the population is built for.
FlakeCounts == { 0, 1, 2 }

\* The arrays spawnFlakes() can build when init is called with these
\* options and flakeCount n in the current window.
Spawned(options, n) ==
    SpawnFlakes(n, [MergeOptions(options) EXCEPT !.flakeCount = n],
                win.innerWidth, win.innerHeight)

\* C12 (as stated): the population spawnFlakes() builds at start has
\* exactly flakeCount flakes, each a new spawn above the top edge: y = -20
\* and landed = false.
C12_SpawnsAboveAsStated ==
    ~isRunning =>
        \A options \in OptionSets : \A n \in FlakeCounts :
            \A fs \in Spawned(options, n) :
                /\ Len(fs) = n
                /\ \A i \in 1..Len(fs) : fs[i].y = -20 * U /\ ~fs[i].landed

\* C12 (amended): the population spawnFlakes() builds at start has exactly
\* flakeCount flakes, each a mid-field spawn: landed = false, meltAlpha 1.0
\* and y = Math.random() * height, in [0, height); and a running system
\* holds exactly flakeCount flakes.
C12_SpawnsMidField ==
    /\ isRunning => Len(flakes) = config.flakeCount
    /\ ~isRunning =>
        \A options \in OptionSets : \A n \in FlakeCounts :
            \A fs \in Spawned(options, n) :
                /\ Len(fs) = n
                /\ \A i \in 1..Len(fs) :
                     /\ ~fs[i].landed /\ fs[i].meltAlpha = U
                     /\ fs[i].y >= 0 /\ fs[i].y < win.innerHeight
                     /\ \E r \in YDraws : fs[i].y = Mul(r, win.innerHeight)

\* C12 happens: the system has started and the one update since has moved
\* a flake down from the middle of the viewport's height.
C12_Witness ==
    /\ isRunning /\ initCalls = 1 /\ height = win.innerHeight
    /\ Len(flakes) = config.flakeCount
    /\ \E i \in Flakes :
        /\ flakes[i].last.took = {"move"}
        /\ flakes[i].y = flakes[i].last.y
        /\ flakes[i].y - flakes[i].vy = Mul(U \div 2, height)

\* C13: first qualifying hit wins.  A flake that an update (of a frame or
\* of init's first pass) has landed sits at the landing line of the first
\* obstacle it stuck to in that pass, no later obstacle of the pass having
\* moved it, and that obstacle's window [landY, landY + 10] contained the
\* y the collision check was entered with.
C13_FirstHitWins ==
    [][ \A i \in DOMAIN flakes' :
          ( /\ "stick" \in flakes'[i].last.took
            /\ (i \in DOMAIN flakes => ~flakes[i].landed) ) =>
              LET f     == flakes'[i]
                  first == obstacles'[f.last.hits[1]]
              IN  /\ f.landed
                  /\ f.y = LandY(f, first)
                  /\ f.last.y >= f.y /\ f.last.y <= f.y + 10 * U ]_vars

\* C14 (as stated): a flake whose latest update took it below the bottom
\* edge and reinitialised it is, at the end of that update, falling at
\* y = -20, whatever the obstacles are.
C14_RespawnStaysFallingAsStated ==
    \A i \in Flakes :
        "respawnBottom" \in flakes[i].last.took =>
            ~flakes[i].landed /\ flakes[i].y = -20 * U

\* C14 (amended): an update (of a frame or of init's first pass) that takes
\* a falling flake below the bottom edge reinitialises it as a new spawn,
\* and it ends that update falling at y = -20 unless the collision check
\* of the same update sticks it: then z > 0.4, the spawn position (x, -20)
\* is inside the span and window of one of the obstacles, and the flake is
\* landed, unmelted, on an obstacle's landing line.
C14_RespawnFallsUnlessStuck ==
    [][ \A i \in DOMAIN flakes' :
          ( /\ "respawnBottom" \in flakes'[i].last.took
            /\ (i \in DOMAIN flakes => ~flakes[i].landed) ) =>
              LET f     == flakes'[i]
                  spawn == [ f EXCEPT !.landed = FALSE, !.y = -20 * U ]
                  obss  == obstacles'
              IN  /\ f.last.y = -20 * U
                  /\ spawn.meltAlpha = U
                  /\ spawn.z >= U \div 10 /\ spawn.z < U
                  /\ spawn.size = Mul(config'.sizeBase, spawn.z)
                  /\ \/ f = spawn
                     \/ /\ f.landed /\ f.z > (4 * U) \div 10
                        /\ \E k \in 1..Len(obss) : Hits(spawn, obss[k])
                        /\ \E k \in 1..Len(obss) : f.y = LandY(f, obss[k]) ]_vars

\* C14 happens: the page is scrolled so that an obstacle's top is just
\* above the viewport, and a flake that fell below the bottom edge was
\* respawned and stuck in the same update.
C14_Witness ==
    /\ isRunning /\ win.scrollY # 0 /\ obstacles # << >>
    /\ \E i \in Flakes :
        /\ {"respawnBottom", "stick"} \subseteq flakes[i].last.took
        /\ flakes[i].landed /\ flakes[i].meltAlpha = U
        /\ flakes[i].y < -20 * U

\* The pointer point the constructor sets, before any mousemove.
NoPointerYet == mouse = [x |-> -999 * U, y |-> -999 * U]

\* C15: while no mousemove has been received, no falling flake is within
\* mouseRepulsionRadius of the pointer point and no update has applied the
\* repulsion, for every configured radius and window size.
C15_SentinelOutOfReach ==
    (isRunning /\ NoPointerYet) =>
        \A i \in Flakes :
            /\ "repel" \notin flakes[i].last.took
            /\ ~flakes[i].landed =>
                 Hypot(flakes[i].x - mouse.x, flakes[i].y - mouse.y)
                     >= config.mouseRepulsionRadius

\* C16: in every state every landed flake has z > 0.4: a flake with
\* z <= 0.4 is never landed, also when the update that ends inside an
\* obstacle's window is the one that respawned it with a new z.
C16_FarNeverLands ==
    \A i \in Flakes : flakes[i].landed => flakes[i].z > (4 * U) \div 10

\* C16 happens: a flake respawned at the bottom edge with z = 0.4 ended
\* that update inside the span and window of an obstacle, with stickiness
\* above zero, and is falling.
C16_Witness ==
    /\ isRunning /\ config.stickiness > 0
    /\ \E i \in Flakes :
        /\ "respawnBottom" \in flakes[i].last.took
        /\ flakes[i].z = (4 * U) \div 10
        /\ InWindow(flakes[i])
        /\ ~flakes[i].landed

\* C17: in every state a flake that is not landed has meltAlpha = 1.0;
\* meltAlpha is below 1.0 only for landed flakes.
C17_FallingIsUnmelted ==
    \A i \in Flakes : ~flakes[i].landed => flakes[i].meltAlpha = U

\* C17 happens: a flake's latest update melted it below zero and left it
\* a falling flake with meltAlpha 1.0.
C17_Witness ==
    /\ isRunning /\ config.meltSpeed = (3 * U) \div 10
    /\ \E i \in Flakes :
        /\ "respawnMelt" \in flakes[i].last.took
        /\ ~flakes[i].landed /\ flakes[i].meltAlpha = U

\* Flake indices of the populations SlowOptionSets builds.
SlowFlakeIds == UNION { 1..o.flakeCount : o \in SlowOptionSets }

\* Flake i's latest update ended in init(true).
Respawned(i) ==
    i \in Flakes =>
        flakes[i].last.took \cap {"respawnMelt", "respawnBottom"} # {}

\* Flake i's latest update applied the pointer's repulsion.
Repelled(i) == i \in Flakes /\ "repel" \in flakes[i].last.took

\* C18 (as stated): with every queued frame callback eventually run,
\* gravity > 0 and meltSpeed > 0, every flake is respawned again and again,
\* whatever the pointer, resize and scroll events do.
C18_RespawnsForeverAsStated ==
    \A i \in SlowFlakeIds : []<>Respawned(i)

\* C18 (amended): with every queued frame callback eventually run,
\* gravity > 0 and meltSpeed > 0, every flake is respawned again and again
\* or repelled by the pointer again and again: no flake stays landed
\* forever, and none stays falling forever unless the pointer's repulsion
\* keeps acting on it.
C18_RespawnsUnlessRepelled ==
    \A i \in SlowFlakeIds : []<>(Respawned(i) \/ Repelled(i))

\* A slowly falling flake respawns at the bottom edge in a counted frame,
\* after the pointer has moved next to its column.
C18_Witness ==
    /\ flakes # <<>> /\ config.gravity = (9 * U) \div 10
    /\ mouse = [x |-> 0, y |-> 10 * U] /\ frame = 1
    /\ "respawnBottom" \in flakes[1].last.took

\* C19: as long as no method other than init has been called directly,
\* there is exactly one frame callback queued after every step once init
\* has run (and none before), whatever repeated init calls, resize, scroll
\* and pointer events come in between; and the flakes of a running system
\* change only in the frame callback's step, never in an init call or a
\* resize, scroll or mousemove handler, and keep their number.
C19_OneFrameLoop ==
    [][ directCalls' = 0 =>
          /\ rafPending' = (IF isRunning' THEN 1 ELSE 0)
          /\ (isRunning /\ flakes' # flakes) =>
                /\ Len(flakes') = Len(flakes)
                /\ UNCHANGED <<config, obstacles, width, height, mouse, isRunning,
                               canvases, listeners, win, initCalls>> ]_vars

\* A second init call, a pointer move and a scroll have happened, the
\* frame callback has moved the flake, and one callback is queued.
C19_Witness ==
    /\ initCalls = 2 /\ directCalls = 0 /\ isRunning /\ rafPending = 1
    /\ mouse # [x |-> -999 * U, y |-> -999 * U]
    /\ obstacles # UpdateObstacles(config, height, [win EXCEPT !.scrollY = 0])
    /\ flakes # <<>> /\ "move" \in flakes[1].last.took

\* C20: with meltSpeed > 0, the opacity draw() computes for a flake, as
\* update() leaves it, is in (0, 1]: a landed flake's is its meltAlpha,
\* in (0, 1] and 1 in the update that lands it; a falling flake's is
\* z * 0.8, in [0.08, 0.8).
C20_OpacityInRange ==
    (flakes # <<>> /\ config.meltSpeed > 0) =>
        \A i \in Flakes :
            LET f == flakes[i]
            IN  /\ DrawOpacity(f) > 0 /\ DrawOpacity(f) <= U
                /\ f.landed =>
                      /\ DrawOpacity(f) = f.meltAlpha
                      /\ "stick" \in f.last.took => DrawOpacity(f) = U
                /\ ~f.landed =>
                      /\ DrawOpacity(f) >= (8 * U) \div 100
                      /\ DrawOpacity(f) < (8 * U) \div 10

\* A landed flake has melted for one frame and is drawn below full
\* opacity.
C20_Witness ==
    \E i \in Flakes :
        /\ flakes[i].landed /\ "melt" \in flakes[i].last.took
        /\ DrawOpacity(flakes[i]) > 0 /\ DrawOpacity(flakes[i]) < U

====
